---- MODULE Spec2Model ----
(***************************************************************************)
(* Model of the assistant bot of 2_task.py: the validated fields (Name,    *)
(* Phone, Birthday), Record, AddressBook, the command handlers wrapped by  *)
(* input_error, the birthdays computation and the main loop.               *)
(*                                                                         *)
(* A Python str is a sequence of one-character strings. The character      *)
(* written "SUP2" stands for U+00B2 (superscript two), a character for     *)
(* which str.isdigit() is True although it is not one of 0-9; "TAB" stands *)
(* for the tab character.                                                  *)
(*                                                                         *)
(* Spec          the main loop: one action per branch of main, each a      *)
(*               whole turn from input() to print().                       *)
(* SpecCore      the calls of one Record: add_phone, remove_phone,         *)
(*               edit_phone, find_phone.                                   *)
(* SpecPhone     Phone(value) on strings of lengths around 10.             *)
(* SpecBirthdays birthdays() on books of a few contacts and several dates  *)
(*               of today.                                                 *)
(***************************************************************************)
EXTENDS Integers, Sequences, FiniteSets, TLC

VARIABLES book, pc, user_input, printed, prevBook, today, record, call

vars == <<book, pc, user_input, printed, prevBook, today, record, call>>

\* ------------------------------------------------------------------ bounds
\* Longest phone list of the record of SpecCore
MaxPhones == 3
\* Longest phone list of a record of the address book of Spec
MaxBookPhones == 2
\* Most records of an address book of SpecBirthdays
MaxRecords == 2

\* -------------------------------------------------------------- characters
AsciiDigits == {"0", "1", "2", "3", "4", "5", "6", "7", "8", "9"}

\* Characters outside 0-9 for which str.isdigit() is True.
OtherDigits == {"SUP2"}

Whitespace == {" ", "TAB"}

NoExc == "NoExc"

\* str.isdigit() of one character
IsDigitChar(c) == c \in AsciiDigits \cup OtherDigits

\* str.isdigit(): every character is a digit and there is at least one
IsDigit(s) == Len(s) >= 1 /\ \A i \in 1..Len(s) : IsDigitChar(s[i])

\* str.lower() of one character
LowerChar(c) ==
    CASE c = "A" -> "a"
      [] c = "D" -> "d"
      [] c = "E" -> "e"
      [] c = "X" -> "x"
      [] c = "I" -> "i"
      [] c = "T" -> "t"
      [] OTHER -> c

Lower(s) == [i \in 1..Len(s) |-> LowerChar(s[i])]

\* ------------------------------------------------------------------ fields
\* Name.__init__: raises ValueError on an empty value
Name(value) ==
    IF value = <<>>
    THEN [exc |-> "ValueError", msg |-> "Name cannot be empty", value |-> <<>>]
    ELSE [exc |-> NoExc, msg |-> "", value |-> value]

\* Phone.__init__: raises NumberVerificationError unless isdigit() and len 10
Phone(value) ==
    IF ~IsDigit(value) \/ Len(value) # 10
    THEN [exc |-> "NumberVerificationError",
          msg |-> "Phone number must contain exactly 10 digits", value |-> <<>>]
    ELSE [exc |-> NoExc, msg |-> "", value |-> value]

\* A date of the datetime module
Date(y, m, d) == [year |-> y, month |-> m, day |-> d]

\* Record.birthday = None (no date has year 0)
NoBirthday == Date(0, 0, 0)

\* ------------------------------------------------------------------- dates
\* datetime._is_leap
IsLeap(y) == y % 4 = 0 /\ (y % 100 # 0 \/ y % 400 = 0)

\* datetime._days_in_month
DaysInMonth(y, m) ==
    IF m = 2 THEN (IF IsLeap(y) THEN 29 ELSE 28)
    ELSE IF m \in {4, 6, 9, 11} THEN 30 ELSE 31

\* datetime._days_before_year
DaysBeforeYear(y) ==
    (y - 1) * 365 + (y - 1) \div 4 - (y - 1) \div 100 + (y - 1) \div 400

RECURSIVE DaysBeforeMonth(_, _)
\* datetime._days_before_month
DaysBeforeMonth(y, m) ==
    IF m = 1 THEN 0 ELSE DaysBeforeMonth(y, m - 1) + DaysInMonth(y, m - 1)

\* date.toordinal
ToOrdinal(d) == DaysBeforeYear(d.year) + DaysBeforeMonth(d.year, d.month) + d.day

\* The check of the date constructor (datetime._check_date_fields)
ValidDate(y, m, d) ==
    /\ y \in 1..9999
    /\ m \in 1..12
    /\ d \in 1..DaysInMonth(y, m)

\* date.replace(year=y): raises ValueError when the day does not exist in y
ReplaceYear(d, y) ==
    IF ValidDate(y, d.month, d.day)
    THEN [exc |-> NoExc, msg |-> "", value |-> Date(y, d.month, d.day)]
    ELSE [exc |-> "ValueError", msg |-> "day is out of range for month",
          value |-> NoBirthday]

\* date.weekday, the index strftime('%A') names: 0 is Monday
Weekday(d) == (ToOrdinal(d) + 6) % 7

\* int() of one ASCII digit
DigitValue(c) ==
    CASE c = "0" -> 0 [] c = "1" -> 1 [] c = "2" -> 2 [] c = "3" -> 3
      [] c = "4" -> 4 [] c = "5" -> 5 [] c = "6" -> 6 [] c = "7" -> 7
      [] c = "8" -> 8 [] c = "9" -> 9

RECURSIVE ToInt(_)
\* int() of a string of ASCII digits
ToInt(s) ==
    IF s = <<>> THEN 0
    ELSE 10 * ToInt(SubSeq(s, 1, Len(s) - 1)) + DigitValue(s[Len(s)])

RECURSIVE SplitOn(_, _, _)
\* The fields of s between the separators sep; cur is the field being read
SplitOn(s, sep, cur) ==
    IF s = <<>> THEN <<cur>>
    ELSE IF Head(s) = sep THEN <<cur>> \o SplitOn(Tail(s), sep, <<>>)
    ELSE SplitOn(Tail(s), sep, Append(cur, Head(s)))

AllAsciiDigits(s) == \A i \in 1..Len(s) : s[i] \in AsciiDigits

\* datetime.strptime(value, "%d.%m.%Y").date(): %d and %m take one or two
\* digits, %Y exactly four; every failure is a ValueError
Strptime(value) ==
    LET f == SplitOn(value, ".", <<>>) IN
    IF /\ Len(f) = 3
       /\ Len(f[1]) \in 1..2 /\ AllAsciiDigits(f[1])
       /\ Len(f[2]) \in 1..2 /\ AllAsciiDigits(f[2])
       /\ Len(f[3]) = 4 /\ AllAsciiDigits(f[3])
       /\ ValidDate(ToInt(f[3]), ToInt(f[2]), ToInt(f[1]))
    THEN [exc |-> NoExc, msg |-> "",
          value |-> Date(ToInt(f[3]), ToInt(f[2]), ToInt(f[1]))]
    ELSE [exc |-> "ValueError", msg |-> "strptime", value |-> NoBirthday]

\* Birthday.__init__: any ValueError of strptime becomes the format message
Birthday(value) ==
    LET d == Strptime(value) IN
    IF d.exc # NoExc
    THEN [exc |-> "ValueError", msg |-> "Invalid date format. Use DD.MM.YYYY",
          value |-> NoBirthday]
    ELSE d

\* ------------------------------------------------------------------ Record

\* The value a raising constructor leaves behind: never read
NoRecord == [name |-> <<>>, phones |-> <<>>, birthday |-> NoBirthday]

\* Record.__init__
NewRecord(name) ==
    LET n == Name(name) IN
    IF n.exc # NoExc
    THEN [exc |-> n.exc, msg |-> n.msg, rec |-> NoRecord]
    ELSE [exc |-> NoExc, msg |-> "",
          rec |-> [name |-> n.value, phones |-> <<>>, birthday |-> NoBirthday]]

\* Record.add_phone: the record afterwards and the exception raised, if any
add_phone(rec, phone) ==
    LET p == Phone(phone) IN
    IF p.exc # NoExc
    THEN [exc |-> p.exc, msg |-> p.msg, rec |-> rec]
    ELSE [exc |-> NoExc, msg |-> "",
          rec |-> [rec EXCEPT !.phones = Append(@, p.value)]]

RECURSIVE RemoveFirst(_, _)
RemoveFirst(ps, phone) ==
    IF ps = <<>> THEN <<>>
    ELSE IF Head(ps) = phone THEN Tail(ps)
    ELSE <<Head(ps)>> \o RemoveFirst(Tail(ps), phone)

remove_phone_first_only(rec, phone) ==
    [rec EXCEPT !.phones = RemoveFirst(@, phone)]

\* The list comprehension of remove_phone, one element at a time
RECURSIVE KeepOthers(_, _)
KeepOthers(ps, phone) ==
    IF ps = <<>> THEN <<>>
    ELSE IF Head(ps) # phone
         THEN <<Head(ps)>> \o KeepOthers(Tail(ps), phone)
         ELSE KeepOthers(Tail(ps), phone)

\* Record.remove_phone
remove_phone(rec, phone) ==
    [rec EXCEPT !.phones = KeepOthers(@, phone)]

\* Index of the first stored phone equal to phone, 0 when there is none
FirstIndex(ps, phone) ==
    IF \E i \in 1..Len(ps) : ps[i] = phone
    THEN CHOOSE i \in 1..Len(ps) :
            ps[i] = phone /\ \A j \in 1..(i - 1) : ps[j] # phone
    ELSE 0

edit_phone_all_matches(rec, old_phone, new_phone) ==
    LET i == FirstIndex(rec.phones, old_phone)
        p == Phone(new_phone) IN
    IF i = 0
    THEN [exc |-> "ValueError", msg |-> "Old phone number not found", rec |-> rec]
    ELSE IF p.exc # NoExc
    THEN [exc |-> p.exc, msg |-> p.msg, rec |-> rec]
    ELSE [exc |-> NoExc, msg |-> "",
          rec |-> [rec EXCEPT !.phones =
                     [k \in 1..Len(@) |-> IF @[k] = old_phone THEN p.value ELSE @[k]]]]

\* Record.edit_phone: replaces the first match in place, after validating
edit_phone(rec, old_phone, new_phone) ==
    LET i == FirstIndex(rec.phones, old_phone)
        p == Phone(new_phone) IN
    IF i = 0
    THEN [exc |-> "ValueError", msg |-> "Old phone number not found", rec |-> rec]
    ELSE IF p.exc # NoExc
    THEN [exc |-> p.exc, msg |-> p.msg, rec |-> rec]
    ELSE [exc |-> NoExc, msg |-> "",
          rec |-> [rec EXCEPT !.phones[i] = p.value]]

\* Record.add_birthday
add_birthday_rec(rec, birthday) ==
    LET b == Birthday(birthday) IN
    IF b.exc # NoExc
    THEN [exc |-> b.exc, msg |-> b.msg, rec |-> rec]
    ELSE [exc |-> NoExc, msg |-> "", rec |-> [rec EXCEPT !.birthday = b.value]]

\* Record.find_phone: the first stored phone equal to phone, or None
find_phone(rec, phone) ==
    LET i == FirstIndex(rec.phones, phone) IN
    IF i = 0 THEN [isNone |-> TRUE, index |-> 0, value |-> <<>>]
    ELSE [isNone |-> FALSE, index |-> i, value |-> rec.phones[i]]

\* ------------------------------------------------------------- AddressBook
\* The book is the dict's items in insertion order: <<[key, rec], ...>>
RecordKeyLowered(rec) == Lower(rec.name)

\* The key add_record stores a record under: record.name.value
RecordKey(rec) == rec.name

\* Position of the entry with this key, 0 when there is none
KeyIndex(b, key) ==
    IF \E i \in 1..Len(b) : b[i].key = key
    THEN CHOOSE i \in 1..Len(b) : b[i].key = key
    ELSE 0

\* AddressBook.find: the position of the record, 0 for None
find(b, name) == KeyIndex(b, name)

\* AddressBook.add_record: a dict assignment, overwriting or appending
add_record(b, rec) ==
    LET i == KeyIndex(b, RecordKey(rec)) IN
    IF i # 0
    THEN [b EXCEPT ![i] = [key |-> RecordKey(rec), rec |-> rec]]
    ELSE Append(b, [key |-> RecordKey(rec), rec |-> rec])

\* ---------------------------------------------------------------- handlers
\* A handler's outcome: the exception it raised (or NoExc), the exception's
\* text, the value it returned and the book as it left it.
Raise(exc, msg, b) ==
    [exc |-> exc, msg |-> msg, ret |-> [msg |-> "", items |-> <<>>], book |-> b]

Return(msg, items, b) ==
    [exc |-> NoExc, msg |-> "", ret |-> [msg |-> msg, items |-> items], book |-> b]

\* add_contact, undecorated
add_contact(args, b) ==
    IF Len(args) < 2
    THEN Raise("ValueError", "not enough values to unpack", b)
    ELSE
    LET name == args[1]
        phone == args[2]
        found == find(b, name)
        created == NewRecord(name)
        b1 == IF found = 0 THEN add_record(b, created.rec) ELSE b
        at == IF found = 0 THEN KeyIndex(b1, RecordKey(created.rec)) ELSE found
        message == IF found = 0 THEN "Contact added." ELSE "Contact updated."
        added == add_phone(b1[at].rec, phone)
    IN
    IF found = 0 /\ created.exc # NoExc
    THEN Raise(created.exc, created.msg, b)
    ELSE IF phone = <<>>
    THEN Return(message, <<>>, b1)
    ELSE IF added.exc # NoExc
    THEN Raise(added.exc, added.msg, b1)
    ELSE Return(message, <<>>, [b1 EXCEPT ![at].rec = added.rec])

\* change_contact, undecorated
change_contact(args, b) ==
    IF Len(args) # 3
    THEN Raise("ValueError",
               IF Len(args) < 3 THEN "not enough values to unpack"
               ELSE "too many values to unpack", b)
    ELSE
    LET at == find(b, args[1])
        edited == edit_phone(b[at].rec, args[2], args[3])
    IN
    IF at = 0
    THEN Return("Contact not found", <<>>, b)
    ELSE IF edited.exc # NoExc
    THEN Raise(edited.exc, edited.msg, b)
    ELSE Return("Phone number updated.", <<>>, [b EXCEPT ![at].rec = edited.rec])

\* show_phones, undecorated
show_phones(args, b) ==
    IF args = <<>>
    THEN Raise("IndexError", "list index out of range", b)
    ELSE
    LET at == find(b, args[1]) IN
    IF at = 0
    THEN Return("Contact not found", <<>>, b)
    ELSE Return("phones", b[at].rec.phones, b)

\* show_all
show_all(b) ==
    IF b = <<>>
    THEN Return("Empty address book", <<>>, b)
    ELSE Return("all", [i \in 1..Len(b) |-> b[i].rec], b)

\* add_birthday, undecorated
add_birthday(args, b) ==
    IF Len(args) # 2
    THEN Raise("ValueError",
               IF Len(args) < 2 THEN "not enough values to unpack"
               ELSE "too many values to unpack", b)
    ELSE
    LET at == find(b, args[1])
        set == add_birthday_rec(b[at].rec, args[2])
    IN
    IF at = 0
    THEN Return("Contact not found", <<>>, b)
    ELSE IF set.exc # NoExc
    THEN Raise(set.exc, set.msg, b)
    ELSE Return("Birthday is added", <<>>, [b EXCEPT ![at].rec = set.rec])

\* show_birthday, undecorated ("Contact not found." stands for the Ukrainian
\* text of line 161)
show_birthday(args, b) ==
    IF args = <<>>
    THEN Raise("IndexError", "list index out of range", b)
    ELSE
    LET at == find(b, args[1]) IN
    IF at = 0
    THEN Return("Contact not found.", <<>>, b)
    ELSE IF b[at].rec.birthday # NoBirthday
    THEN Return("has birthday on", <<b[at].rec.birthday>>, b)
    ELSE Return("No birthday", <<>>, b)

\* The window test of birthdays, line 181
InWindow(delta_days) == 0 <= delta_days /\ delta_days <= 7

RECURSIVE BirthdaysLoop(_, _, _, _)
\* The loop of birthdays over book.values() from position i on: the list of
\* upcoming entries, or the ValueError of the first replace() that raises
BirthdaysLoop(b, i, now, upcoming) ==
    IF i > Len(b) THEN [exc |-> NoExc, msg |-> "", upcoming |-> upcoming]
    ELSE
    LET rec == b[i].rec
        bday == rec.birthday
        first == ReplaceYear(bday, now.year)
        delta1 == ToOrdinal(first.value) - ToOrdinal(now)
        second == ReplaceYear(bday, now.year + 1)
        this_year_birthday == IF delta1 < 0 THEN second.value ELSE first.value
        delta_days == ToOrdinal(this_year_birthday) - ToOrdinal(now)
    IN
    IF bday = NoBirthday THEN BirthdaysLoop(b, i + 1, now, upcoming)
    ELSE IF first.exc # NoExc
    THEN [exc |-> first.exc, msg |-> first.msg, upcoming |-> upcoming]
    ELSE IF delta1 < 0 /\ second.exc # NoExc
    THEN [exc |-> second.exc, msg |-> second.msg, upcoming |-> upcoming]
    ELSE BirthdaysLoop(b, i + 1, now,
            IF InWindow(delta_days)
            THEN Append(upcoming, [name |-> rec.name,
                                   weekday |-> Weekday(this_year_birthday),
                                   date |-> this_year_birthday])
            ELSE upcoming)

\* birthdays, undecorated; now is datetime.today().date()
birthdays(args, b, now) ==
    LET loop == BirthdaysLoop(b, 1, now, <<>>) IN
    IF loop.exc # NoExc
    THEN Raise(loop.exc, loop.msg, b)
    ELSE IF loop.upcoming = <<>>
    THEN Return("No birthdays next week", <<>>, b)
    ELSE Return("upcoming", loop.upcoming, b)

\* input_error: what the decorated handler returns, and the exception that
\* escapes it, if any ("Not enough arguments..." stands for the Ukrainian text
\* of line 92)
input_error(r) ==
    IF r.exc = NoExc
    THEN [raised |-> NoExc, out |-> r.ret, book |-> r.book]
    ELSE IF r.exc \in {"IndexError", "TypeError"}
    THEN [raised |-> NoExc, book |-> r.book,
          out |-> [msg |-> "Not enough arguments or wrong command format.",
                   items |-> <<>>]]
    ELSE IF r.exc \in {"ValueError", "NumberVerificationError"}
    THEN [raised |-> NoExc, book |-> r.book,
          out |-> [msg |-> r.msg, items |-> <<>>]]
    ELSE IF r.exc = "KeyError"
    THEN [raised |-> NoExc, book |-> r.book,
          out |-> [msg |-> "Contact not found", items |-> <<>>]]
    ELSE [raised |-> r.exc, book |-> r.book, out |-> [msg |-> "", items |-> <<>>]]

\* --------------------------------------------------------------- main loop
\* str.split() with no separator: the maximal runs of non-whitespace
\* characters, in order
SplitWs(s) ==
    LET starts == {i \in 1..Len(s) :
                      s[i] \notin Whitespace /\ (i = 1 \/ s[i - 1] \in Whitespace)}
        ends == {i \in 1..Len(s) :
                    s[i] \notin Whitespace /\ (i = Len(s) \/ s[i + 1] \in Whitespace)}
        Nth(S, k) == CHOOSE i \in S : Cardinality({j \in S : j < i}) = k - 1
    IN [k \in 1..Cardinality(starts) |-> SubSeq(s, Nth(starts, k), Nth(ends, k))]

\* str.strip(): without the whitespace at both ends
Strip(s) ==
    LET keep == {i \in 1..Len(s) : s[i] \notin Whitespace} IN
    IF keep = {} THEN <<>>
    ELSE SubSeq(s, CHOOSE i \in keep : \A j \in keep : i <= j,
                   CHOOSE i \in keep : \A j \in keep : i >= j)

\* parse_input: parts[0] raises IndexError when the line holds no word
parse_input(line) ==
    LET parts == SplitWs(Strip(line)) IN
    IF parts = <<>>
    THEN [exc |-> "IndexError", command |-> <<>>, args |-> <<>>]
    ELSE [exc |-> NoExc, command |-> Lower(parts[1]), args |-> Tail(parts)]

\* ------------------------------------------------- inputs of the core calls
Rep(c, n) == [i \in 1..n |-> c]

PhoneA == <<"0", "1", "2", "3", "4", "5", "6", "7", "8", "9">>
PhoneB == <<"9", "8", "7", "6", "5", "4", "3", "2", "1", "0">>
PhoneSup == Rep("SUP2", 10)
PhoneShort == <<"1", "2", "3">>
PhoneAlpha == <<"1", "2", "3", "4", "5", "a", "b", "c", "d", "e">>

\* Phone arguments of the Record calls
PhoneArgs == {PhoneA, PhoneB, PhoneSup, PhoneShort, PhoneAlpha}

PhoneAlphabet == {"0", "7", "SUP2", "a"}

ShortLen == 3

\* Strings over PhoneAlphabet of length 0..ShortLen
ShortStrings == UNION {[1..n -> PhoneAlphabet] : n \in 0..ShortLen}

PrefixLen == 8

\* Arguments of Phone(): lengths 0..ShortLen and PrefixLen+1..PrefixLen+ShortLen
PhoneStrings ==
    ShortStrings \cup {Rep("5", PrefixLen) \o t : t \in ShortStrings \ {<<>>}}

NoCall == [op |-> "none", a |-> <<>>, b |-> <<>>, exc |-> NoExc,
           before |-> <<>>, ret |-> [isNone |-> TRUE, index |-> 0, value |-> <<>>]]

NameAl == <<"A", "l">>
NameBo == <<"B", "o">>

\* ---------------------------------------------- the core calls, one by one
InitCore ==
    /\ record = NewRecord(NameAl).rec
    /\ call = NoCall
    /\ book = <<>>
    /\ pc = "core"
    /\ user_input = <<>>
    /\ printed = [msg |-> "", items |-> <<>>]
    /\ prevBook = <<>>
    /\ today = NoBirthday

CoreFrame == UNCHANGED <<book, pc, user_input, printed, prevBook, today>>

\* Phone(value), standing alone
MakePhone(value) ==
    LET p == Phone(value) IN
    /\ call.op = "start"
    /\ call.a = value
    /\ call' = [NoCall EXCEPT !.op = "Phone", !.a = value, !.exc = p.exc,
                              !.before = record.phones,
                              !.ret = [isNone |-> p.exc # NoExc, index |-> 0,
                                       value |-> p.value]]
    /\ UNCHANGED record
    /\ CoreFrame

AddPhone(phone) ==
    LET r == add_phone(record, phone) IN
    /\ Len(record.phones) < MaxPhones
    /\ record' = r.rec
    /\ call' = [NoCall EXCEPT !.op = "add_phone", !.a = phone, !.exc = r.exc,
                              !.before = record.phones]
    /\ CoreFrame

RemovePhone(phone) ==
    /\ record' = remove_phone(record, phone)
    /\ call' = [NoCall EXCEPT !.op = "remove_phone", !.a = phone,
                              !.before = record.phones]
    /\ CoreFrame

EditPhone(old_phone, new_phone) ==
    LET r == edit_phone(record, old_phone, new_phone) IN
    /\ record' = r.rec
    /\ call' = [NoCall EXCEPT !.op = "edit_phone", !.a = old_phone,
                              !.b = new_phone, !.exc = r.exc,
                              !.before = record.phones]
    /\ CoreFrame

FindPhone(phone) ==
    /\ call' = [NoCall EXCEPT !.op = "find_phone", !.a = phone,
                              !.before = record.phones,
                              !.ret = find_phone(record, phone)]
    /\ UNCHANGED record
    /\ CoreFrame

NextCore ==
    \/ \E p \in PhoneArgs : AddPhone(p)
    \/ \E p \in PhoneArgs : RemovePhone(p)
    \/ \E o, n \in PhoneArgs : EditPhone(o, n)
    \/ \E p \in PhoneArgs : FindPhone(p)

SpecCore == InitCore /\ [][NextCore]_vars

\* Phone() on each string of PhoneStrings
InitPhone ==
    /\ record = NewRecord(NameAl).rec
    /\ \E v \in PhoneStrings : call = [NoCall EXCEPT !.op = "start", !.a = v]
    /\ book = <<>>
    /\ pc = "core"
    /\ user_input = <<>>
    /\ printed = [msg |-> "", items |-> <<>>]
    /\ prevBook = <<>>
    /\ today = NoBirthday

NextPhone == \E v \in PhoneStrings : MakePhone(v)

SpecPhone == InitPhone /\ [][NextPhone]_vars

\* ------------------------------------------------------ the lines typed in
CmdAdd == <<"a", "d", "d">>
CmdChange == <<"c", "h", "a", "n", "g", "e">>
CmdPhone == <<"p", "h", "o", "n", "e">>
CmdAll == <<"a", "l", "l">>
CmdAddBirthday == <<"a", "d", "d", "-", "b", "i", "r", "t", "h", "d", "a", "y">>
CmdShowBirthday == <<"s", "h", "o", "w", "-", "b", "i", "r", "t", "h", "d", "a", "y">>
CmdBirthdays == <<"b", "i", "r", "t", "h", "d", "a", "y", "s">>
CmdHello == <<"h", "e", "l", "l", "o">>
CmdClose == <<"c", "l", "o", "s", "e">>
CmdExit == <<"e", "x", "i", "t">>

Names == {NameAl, NameBo}

\* Phone words typed at the prompt
CliPhones == {PhoneA, PhoneB, PhoneShort}

Bday_29_02_2000 == <<"2", "9", ".", "0", "2", ".", "2", "0", "0", "0">>
Bday_02_01_1995 == <<"0", "2", ".", "0", "1", ".", "1", "9", "9", "5">>
Bday_31_02_2024 == <<"3", "1", ".", "0", "2", ".", "2", "0", "2", "4">>

\* Birthday words typed at the prompt
CliBirthdays == {Bday_29_02_2000, Bday_02_01_1995, Bday_31_02_2024}

\* The dates datetime.today() returns in Spec
CliTodays == {Date(2024, 12, 30), Date(2023, 2, 27)}

RECURSIVE JoinSp(_)
\* " ".join(words)
JoinSp(words) ==
    IF words = <<>> THEN <<>>
    ELSE IF Len(words) = 1 THEN words[1]
    ELSE words[1] \o <<" ">> \o JoinSp(Tail(words))

\* The words of the lines: every command alone, with one name, with too many
\* words, in upper case, and the contact commands with good and bad arguments
WordLists ==
    {<<CmdAdd>>, <<CmdChange>>, <<CmdPhone>>, <<CmdAll>>, <<CmdAddBirthday>>,
     <<CmdShowBirthday>>, <<CmdBirthdays>>, <<CmdHello>>, <<CmdClose>>,
     <<CmdExit>>, <<<<"E", "X", "I", "T">>>>, <<<<"h", "e", "l", "p">>>>,
     <<CmdAdd, NameAl, PhoneA, PhoneA>>,
     <<CmdChange, NameAl, PhoneA, PhoneB, PhoneA>>,
     <<CmdAddBirthday, NameAl, Bday_02_01_1995, Bday_02_01_1995>>,
     <<<<"A", "d", "d">>, NameAl, PhoneB>>}
    \cup {<<c, n>> : c \in {CmdAdd, CmdChange, CmdPhone, CmdAddBirthday,
                            CmdShowBirthday}, n \in Names}
    \cup {<<CmdAdd, n, p>> : n \in Names, p \in {PhoneA, PhoneShort}}
    \cup {<<CmdChange, NameAl, o, p>> : o \in {PhoneA, PhoneB}, p \in CliPhones}
    \cup {<<CmdAddBirthday, NameAl, d>> : d \in CliBirthdays}

\* The lines input() returns: words joined by blanks, some with blanks and
\* tabs around them, and the lines that hold no word
Lines ==
    {JoinSp(w) : w \in WordLists}
    \cup {<<>>, <<" ">>, <<"TAB", " ">>}
    \cup {<<" ">> \o CmdHello \o <<" ", "TAB">>,
          CmdPhone \o <<" ", " ">> \o NameAl}

\* ------------------------------------------------------------ the program
NoOutput == [msg |-> "", items |-> <<>>]

\* main() up to its first input(): an empty book, the welcome printed
Init ==
    /\ book = <<>>
    /\ pc = "input"
    /\ user_input = <<>>
    /\ printed = [msg |-> "Welcome to the assistant bot!", items |-> <<>>]
    /\ prevBook = <<>>
    /\ today = NoBirthday
    /\ record = NoRecord
    /\ call = NoCall

\* The phone lists and the book stay within the bounds of the model
WithinBounds(b) ==
    \A i \in 1..Len(b) : Len(b[i].rec.phones) <= MaxBookPhones

\* One turn of the loop that ends in print(out) and reads on
Turn(line, r) ==
    /\ user_input' = line
    /\ prevBook' = book
    /\ WithinBounds(r.book)
    /\ book' = r.book
    /\ printed' = r.out
    /\ pc' = IF r.raised = NoExc THEN "input" ELSE "crashed"
    /\ UNCHANGED <<record, call>>

\* The lines of Lines, each with what parse_input returns for it
Inputs == {[line |-> l, parsed |-> parse_input(l)] : l \in Lines}

\* input() returned a line without a word: parse_input raises IndexError,
\* which nothing in main catches
ReadBlank(inp) ==
    /\ pc = "input"
    /\ inp.parsed.exc # NoExc
    /\ user_input' = inp.line
    /\ prevBook' = book
    /\ printed' = [msg |-> "Traceback: IndexError", items |-> <<>>]
    /\ pc' = "crashed"
    /\ today' = NoBirthday
    /\ UNCHANGED <<book, record, call>>

\* The line was parsed and its first word, lowered, is command
Parsed(inp, command) ==
    /\ pc = "input"
    /\ inp.parsed.exc = NoExc
    /\ inp.parsed.command = command

DoClose(inp) ==
    /\ \/ Parsed(inp, CmdClose)
       \/ Parsed(inp, CmdExit)
    /\ user_input' = inp.line
    /\ prevBook' = book
    /\ printed' = [msg |-> "Good bye!", items |-> <<>>]
    /\ pc' = "done"
    /\ today' = NoBirthday
    /\ UNCHANGED <<book, record, call>>

DoHello(inp) ==
    /\ Parsed(inp, CmdHello)
    /\ Turn(inp.line, [raised |-> NoExc, book |-> book,
                       out |-> [msg |-> "How can I help you?", items |-> <<>>]])
    /\ today' = NoBirthday

DoAdd(inp) ==
    /\ Parsed(inp, CmdAdd)
    /\ Turn(inp.line, input_error(add_contact(inp.parsed.args, book)))
    /\ today' = NoBirthday

DoChange(inp) ==
    /\ Parsed(inp, CmdChange)
    /\ Turn(inp.line, input_error(change_contact(inp.parsed.args, book)))
    /\ today' = NoBirthday

DoPhone(inp) ==
    /\ Parsed(inp, CmdPhone)
    /\ Turn(inp.line, input_error(show_phones(inp.parsed.args, book)))
    /\ today' = NoBirthday

DoAll(inp) ==
    /\ Parsed(inp, CmdAll)
    /\ Turn(inp.line, [raised |-> NoExc, book |-> book, out |-> show_all(book).ret])
    /\ today' = NoBirthday

DoAddBirthday(inp) ==
    /\ Parsed(inp, CmdAddBirthday)
    /\ Turn(inp.line, input_error(add_birthday(inp.parsed.args, book)))
    /\ today' = NoBirthday

DoShowBirthday(inp) ==
    /\ Parsed(inp, CmdShowBirthday)
    /\ Turn(inp.line, input_error(show_birthday(inp.parsed.args, book)))
    /\ today' = NoBirthday

DoBirthdays(inp, now) ==
    /\ Parsed(inp, CmdBirthdays)
    /\ today' = now
    /\ Turn(inp.line, input_error(birthdays(inp.parsed.args, book, now)))

Commands ==
    {CmdAdd, CmdChange, CmdPhone, CmdAll, CmdAddBirthday, CmdShowBirthday,
     CmdBirthdays, CmdHello, CmdClose, CmdExit}

DoInvalid(inp) ==
    /\ pc = "input"
    /\ inp.parsed.exc = NoExc
    /\ inp.parsed.command \notin Commands
    /\ Turn(inp.line, [raised |-> NoExc, book |-> book,
                       out |-> [msg |-> "Invalid command.", items |-> <<>>]])
    /\ today' = NoBirthday

Next ==
    \/ \E inp \in Inputs : ReadBlank(inp)
    \/ \E inp \in Inputs : DoClose(inp)
    \/ \E inp \in Inputs : DoHello(inp)
    \/ \E inp \in Inputs : DoAdd(inp)
    \/ \E inp \in Inputs : DoChange(inp)
    \/ \E inp \in Inputs : DoPhone(inp)
    \/ \E inp \in Inputs : DoAll(inp)
    \/ \E inp \in Inputs : DoAddBirthday(inp)
    \/ \E inp \in Inputs : DoShowBirthday(inp)
    \/ \E inp \in Inputs, now \in CliTodays : DoBirthdays(inp, now)
    \/ \E inp \in Inputs : DoInvalid(inp)

Spec == Init /\ [][Next]_vars

\* ------------------------------------------- birthdays on books and dates
\* One ASCII digit of a number
DigitChar(k) ==
    CASE k = 0 -> "0" [] k = 1 -> "1" [] k = 2 -> "2" [] k = 3 -> "3"
      [] k = 4 -> "4" [] k = 5 -> "5" [] k = 6 -> "6" [] k = 7 -> "7"
      [] k = 8 -> "8" [] k = 9 -> "9"

\* date.strftime('%d.%m.%Y')
Strftime(d) ==
    <<DigitChar(d.day \div 10), DigitChar(d.day % 10), ".",
      DigitChar(d.month \div 10), DigitChar(d.month % 10), ".",
      DigitChar(d.year \div 1000), DigitChar((d.year \div 100) % 10),
      DigitChar((d.year \div 10) % 10), DigitChar(d.year % 10)>>

NameCy == <<"C", "y">>

BirthdayNames == {NameAl, NameBo, NameCy}

\* The birthdays given to add-birthday; <<>> stands for no add-birthday at all
BirthdayArgs ==
    {<<>>} \cup {Strftime(d) : d \in {Date(1990, 3, 12), Date(1990, 3, 5),
                                      Date(1995, 1, 2), Date(2000, 2, 29),
                                      Date(1990, 3, 17), Date(1990, 3, 18)}}

\* The dates datetime.today() returns in SpecBirthdays
Todays ==
    {Date(2024, 3, 10), Date(2024, 12, 30), Date(2023, 2, 27),
     Date(2024, 2, 25), Date(2024, 3, 1), Date(2023, 12, 26)}

RECURSIVE BuildBook(_, _, _, _)
\* The book after "add name PhoneA" and, where a birthday is given,
\* "add-birthday name birthday", for each name in turn
BuildBook(names, bdays, i, b) ==
    IF i > Len(names) THEN b
    ELSE
    LET b1 == add_contact(<<names[i], PhoneA>>, b).book
        b2 == IF bdays[i] = <<>> THEN b1
              ELSE add_birthday(<<names[i], bdays[i]>>, b1).book
    IN BuildBook(names, bdays, i + 1, b2)

\* The books of at most MaxRecords contacts
BirthdayBooks ==
    UNION {{BuildBook(names, bdays, 1, <<>>) :
              names \in {f \in [1..k -> BirthdayNames] :
                            \A i, j \in 1..k : i # j => f[i] # f[j]},
              bdays \in [1..k -> BirthdayArgs]} : k \in 0..MaxRecords}

InitBirthdays ==
    /\ book \in BirthdayBooks
    /\ today \in Todays
    /\ pc = "birthdays"
    /\ user_input = CmdBirthdays
    /\ printed = NoOutput
    /\ prevBook = book
    /\ record = NoRecord
    /\ call = NoCall

\* The decorated birthdays(args, book), with today the date of the call
RunBirthdays ==
    /\ pc = "birthdays"
    /\ printed' = input_error(birthdays(<<>>, book, today)).out
    /\ pc' = "printed"
    /\ UNCHANGED <<book, today, user_input, prevBook, record, call>>

NextBirthdays == RunBirthdays

SpecBirthdays == InitBirthdays /\ [][NextBirthdays]_vars

\* ------------------------------------------------------ claims on the core
\* What the specification calls a valid phone: exactly 10 characters, 0-9 each
TenAsciiDigits(s) == Len(s) = 10 /\ \A i \in 1..Len(s) : s[i] \in AsciiDigits

Occurrences(ps, phone) == Cardinality({i \in 1..Len(ps) : ps[i] = phone})

\* C2: after any sequence of add_phone, edit_phone and remove_phone calls,
\* successful or failing, every stored phone is exactly 10 characters long and
\* all its characters are (decimal, 0-9) digits.
C2_StoredPhonesAreTenDigits ==
    \A i \in 1..Len(record.phones) : TenAsciiDigits(record.phones[i])

\* Every stored phone went through Phone(): no call of the record, edit_phone
\* included, stores a value that Phone() rejects.
StoredPhonesPassPhone ==
    \A i \in 1..Len(record.phones) : Phone(record.phones[i]).exc = NoExc

\* C3: Phone(value) succeeds and stores value unchanged when value is exactly
\* 10 ASCII digits, and raises NumberVerificationError for every other string.
C3_PhoneAcceptsExactlyTenAsciiDigits ==
    call.op = "Phone" =>
        IF TenAsciiDigits(call.a)
        THEN call.exc = NoExc /\ call.ret.value = call.a
        ELSE call.exc = "NumberVerificationError"

\* C4 as stated: after a successful edit_phone(old, new) with old # new,
\* find_phone(new) returns a phone and find_phone(old) returns None, whatever
\* the phone list held, duplicates included.
C4_EditThenFindOldIsNone ==
    (call.op = "edit_phone" /\ call.exc = NoExc /\ call.a # call.b) =>
        /\ ~find_phone(record, call.b).isNone
        /\ find_phone(record, call.a).isNone

\* C4 amended: after a successful edit_phone(old, new) with old # new,
\* find_phone(new) returns a phone, and find_phone(old) returns None exactly
\* when old was stored once before the edit (only the first match is replaced).
C4_EditThenFind ==
    (call.op = "edit_phone" /\ call.exc = NoExc /\ call.a # call.b) =>
        /\ ~find_phone(record, call.b).isNone
        /\ find_phone(record, call.b).value = call.b
        /\ find_phone(record, call.a).isNone
               <=> Occurrences(call.before, call.a) = 1

C4_Witness ==
    /\ call.op = "edit_phone" /\ call.exc = NoExc /\ call.a # call.b
    /\ Occurrences(call.before, call.a) = 2
    /\ ~find_phone(record, call.a).isNone

\* C5: edit_phone(old, new) fails with a not-found error when old is not
\* stored, and with the phone-format error when old is stored and new is not a
\* valid phone (10 characters, 0-9 each); both failures leave the phone list as
\* it was; and the not-found error is not of the kind of the phone-format error.
C5_EditPhoneFailures ==
    call.op = "edit_phone" =>
        /\ Occurrences(call.before, call.a) = 0 =>
              /\ call.exc # NoExc
              /\ call.exc # Phone(<<>>).exc
              /\ record.phones = call.before
        /\ (Occurrences(call.before, call.a) > 0 /\ ~TenAsciiDigits(call.b)) =>
              /\ call.exc = Phone(<<>>).exc
              /\ record.phones = call.before

\* C6: remove_phone(p) removes every stored phone equal to p, keeps the others
\* in their order, raises nothing and changes nothing when p is absent, and a
\* second remove_phone(p) changes nothing more.
C6_RemovePhone ==
    call.op = "remove_phone" =>
        /\ call.exc = NoExc
        /\ Occurrences(record.phones, call.a) = 0
        /\ record.phones = SelectSeq(call.before, LAMBDA x : x # call.a)
        /\ Occurrences(call.before, call.a) = 0 => record.phones = call.before
        /\ remove_phone(record, call.a).phones = record.phones

C6_Witness ==
    /\ call.op = "remove_phone"
    /\ Occurrences(call.before, call.a) = 2
    /\ Len(record.phones) = 1

\* ----------------------------------------------- claims on the birthdays
\* The first date on or after t with the day and month of birthday b
NextOccurrence(b, t) ==
    LET Fits(y) == /\ ValidDate(y, b.month, b.day)
                   /\ ToOrdinal(Date(y, b.month, b.day)) >= ToOrdinal(t)
        y0 == CHOOSE y \in t.year..(t.year + 8) :
                 Fits(y) /\ \A z \in t.year..(y - 1) : ~Fits(z)
    IN Date(y0, b.month, b.day)

DaysAway(b, t) == ToOrdinal(NextOccurrence(b, t)) - ToOrdinal(t)

\* The day and month of b come on or after those of t within the year
NotYetPassed(b, t) ==
    b.month > t.month \/ (b.month = t.month /\ b.day >= t.day)

Due(e) ==
    /\ e.rec.birthday # NoBirthday
    /\ DaysAway(e.rec.birthday, today) \in 0..7

NamesOf(entries) == [i \in 1..Len(entries) |-> entries[i].rec.name]

BirthdaysSucceeded == printed.msg \in {"upcoming", "No birthdays next week"}

\* What C7 says of one finished call of birthdays
BirthdaysAsClaimed ==
    /\ BirthdaysSucceeded
    /\ [i \in 1..Len(printed.items) |-> printed.items[i].name]
          = NamesOf(SelectSeq(book, Due))
    /\ \A i \in 1..Len(printed.items) :
          LET b == book[KeyIndex(book, printed.items[i].name)].rec.birthday IN
          /\ printed.items[i].date.month = b.month
          /\ printed.items[i].date.day = b.day
          /\ printed.items[i].date.year =
                IF NotYetPassed(b, today) THEN today.year ELSE today.year + 1

\* C7: birthdays lists a record with a birthday exactly when the next
\* occurrence of its day and month, from today on, is 0 to 7 days away; the
\* date listed has the year today.year when the day has not passed this year
\* and today.year + 1 otherwise; records without a birthday are skipped and the
\* list is in the order of the book.
C7_BirthdaysWindow == pc = "printed" => BirthdaysAsClaimed

IsLeapDay(b) == b.month = 2 /\ b.day = 29

\* C7 holds of every book that holds no birthday of February 29.
BirthdaysWindowWithoutLeapDay ==
    (pc = "printed" /\ \A i \in 1..Len(book) : ~IsLeapDay(book[i].rec.birthday))
        => BirthdaysAsClaimed

\* The year birthdays takes for a birthday of February 29 is not a leap year
LeapDayInCommonYear ==
    /\ \E i \in 1..Len(book) : IsLeapDay(book[i].rec.birthday)
    /\ ~IsLeap(IF NotYetPassed(Date(0, 2, 29), today)
               THEN today.year ELSE today.year + 1)

\* C8: with a birthday of February 29 and a candidate year that is not a leap
\* year, birthdays does not fail: it lists every other record that is due.
C8_LeapDayAdjusted ==
    (pc = "printed" /\ LeapDayInCommonYear) =>
        /\ BirthdaysSucceeded
        /\ \A i \in 1..Len(book) :
              (Due(book[i]) /\ ~IsLeapDay(book[i].rec.birthday)) =>
                  \E k \in 1..Len(printed.items) :
                      printed.items[k].name = book[i].rec.name

\* ------------------------------------------------ claims on the main loop
\* C1: in every state the commands reach, every key of the book is the name
\* of the record it maps to, and no key occurs twice.
C1_KeysAreNames ==
    /\ \A i \in 1..Len(book) : book[i].key = book[i].rec.name
    /\ \A i, j \in 1..Len(book) : i # j => book[i].key # book[j].key

C1_Witness ==
    /\ Len(book) = 2
    /\ printed.msg = "Phone number updated."
    /\ \E i \in 1..Len(book) : book[i].rec.birthday # NoBirthday

\* The last line read is "close" or "exit"
LastLineCloses ==
    /\ parse_input(user_input).exc = NoExc
    /\ parse_input(user_input).command \in {CmdClose, CmdExit}

\* C9: the loop ends only on close or exit; every other line, a line without
\* a word included, is handled and the loop reads the next one.
C9_LoopEndsOnlyOnClose == pc # "input" => LastLineCloses

\* The messages the mutating handlers return on success
SuccessMessages(command) ==
    IF command = CmdAdd THEN {"Contact added.", "Contact updated."}
    ELSE IF command = CmdChange THEN {"Phone number updated."}
    ELSE {"Birthday is added"}

\* C10: when add, change or add-birthday prints an error message instead of
\* its success message, the book is what it was before the command.
C10_ErrorLeavesBookUnchanged ==
    (/\ pc = "input"
     /\ parse_input(user_input).exc = NoExc
     /\ parse_input(user_input).command \in {CmdAdd, CmdChange, CmdAddBirthday}
     /\ printed.msg \notin SuccessMessages(parse_input(user_input).command))
        => book = prevBook

====
